---- MODULE Spec2Model ----
(***************************************************************************)
(* CelebrityVoting: the vote ledger, the aggregation queries, the rate     *)
(* limiter and the moderation operations, as implemented by                *)
(* server/routes.ts (src/server/routes.ts) on top of server/storage.ts     *)
(* (src/TODO.md:250-637) and shared/schema.ts (src/TODO.md:27-173).        *)
(*                                                                         *)
(* Time is counted in minutes.  Row ids (gen_random_uuid()) are modelled   *)
(* by per-table sequence numbers that are never reused.  The device_id     *)
(* that the vote route passes to createVote is not a column of the votes   *)
(* table and is therefore not part of a vote row.                          *)
(***************************************************************************)
EXTENDS Integers, Sequences, FiniteSets, TLC

(* ------------------------------ bounds --------------------------------- *)
(* MaxPosts and MaxVotes bound the posts and votes of Spec, SpecSeq and    *)
(* SpecTrend, BoardPosts and BoardVotes those of SpecBoard, MaxRatePosts   *)
(* the posts of SpecRate.  The clock advances MaxTicks times by            *)
(* TickMinutes.  MaxHours and MaxLimit bound the arguments of the          *)
(* trending and leaderboard queries, MaxActions the action rows added to   *)
(* the default ones in SpecActions.                                        *)
MaxPosts == 1
MaxVotes == 2
BoardPosts == 2
BoardVotes == 3
MaxRatePosts == 6
TickMinutes == 30
MaxTicks == 3
MaxHours == 2
MaxLimit == 2
MaxActions == 2
RacePosts == 7

(* ------------------------- program constants --------------------------- *)
PostLimit == 5
PostWindow == 60
MinutesPerHour == 60
SuggestLimit == 3
SuggestWindow == 60
DefaultLimit == 20
TrendingSortHours == 24
DefaultLeaderboardAction == "love"
DefaultLeaderboardLimit == 10
DefaultTrendingHours == 24
DefaultActions == <<"slap", "hug", "kiss", "love", "hate">>

Slots == {1, 2}
IPs == {1, 2}

VARIABLES posts, actions, votes, rateLimits,
          nextPostId, nextActionId, nextVoteId, nextRateId,
          now, reqs, resp, admitted, createdBy, httpReq, clientIP

store == <<posts, actions, votes, rateLimits,
          nextPostId, nextActionId, nextVoteId, nextRateId>>
vars == <<posts, actions, votes, rateLimits,
          nextPostId, nextActionId, nextVoteId, nextRateId,
          now, reqs, resp, admitted, createdBy, httpReq, clientIP>>

(* ------------------------------ helpers -------------------------------- *)
Ids(rows) == {r.id : r \in rows}

Orderings(S) ==
  {f \in [1..Cardinality(S) -> S] : \A i, j \in 1..Cardinality(S) : i # j => f[i] # f[j]}

Min(a, b) == IF a < b THEN a ELSE b

Take(seq, n) == SubSeq(seq, 1, Min(n, Len(seq)))

(* ORDER BY count DESC: every ordering of the rows with non-increasing    *)
(* count; rows with equal counts come in an order the database chooses.   *)
OrderByCountDesc(rows) ==
  {o \in Orderings(rows) :
     \A i, j \in 1..Cardinality(rows) : i < j => o[i].voteCount >= o[j].voteCount}

(* ORDER BY created_at DESC.                                              *)
OrderByCreatedAtDesc(rows) ==
  {o \in Orderings(rows) :
     \A i, j \in 1..Cardinality(rows) : i < j => o[i].createdAt >= o[j].createdAt}

(* LIMIT limit OFFSET offset.                                             *)
Page(seq, limit, offset) == SubSeq(seq, offset + 1, Min(offset + limit, Len(seq)))

(* ------------------------------ storage -------------------------------- *)
getPostById(id) == {p \in posts : p.id = id}

getActionById(id) == {a \in actions : a.id = id}

(* Variant: the WHERE clause on the post is missing.                      *)
getPostVotesAnyPost(postId) ==
  LET joined == {j \in votes \X actions : j[1].actionId = j[2].id}
      groups == {j[2] : j \in joined}
  IN {[action |-> a, count |-> Cardinality({j \in joined : j[2] = a})] : a \in groups}

(* Variant: a count is the number of distinct voters, not of vote rows.    *)
getPostVotesDistinctVoters(postId) ==
  LET joined == {j \in votes \X actions : j[1].actionId = j[2].id /\ j[1].postId = postId}
      groups == {j[2] : j \in joined}
  IN {[action |-> a, count |-> Cardinality({j[1].ipAddress : j \in {k \in joined : k[2] = a}})] :
        a \in groups}

getPostVotes(postId) ==
  LET joined == {j \in votes \X actions : j[1].actionId = j[2].id /\ j[1].postId = postId}
      groups == {j[2] : j \in joined}
  IN {[action |-> a, count |-> Cardinality({j \in joined : j[2] = a})] : a \in groups}

(* Variant: the votes are not restricted to the requested action.         *)
LeaderboardRowsAnyAction(actionId) ==
  LET joined == {j \in posts \X votes :
                   /\ j[1].id = j[2].postId
                   /\ j[1].status = "approved"}
      groups == {j[1] : j \in joined}
  IN {[post |-> p, voteCount |-> Cardinality({j \in joined : j[1] = p})] : p \in groups}

LeaderboardRows(actionId) ==
  LET joined == {j \in posts \X votes :
                   /\ j[1].id = j[2].postId
                   /\ j[1].status = "approved"
                   /\ j[2].actionId = actionId}
      groups == {j[1] : j \in joined}
  IN {[post |-> p, voteCount |-> Cardinality({j \in joined : j[1] = p})] : p \in groups}

getLeaderboard(actionId, limit) ==
  {Take(o, limit) : o \in OrderByCountDesc(LeaderboardRows(actionId))}

(* Variant: the comparison with the cutoff is turned around.              *)
TrendingRowsBeforeCutoff(hours) ==
  LET cutoffTime == now - hours * MinutesPerHour
      joined == {j \in posts \X votes :
                   /\ j[1].id = j[2].postId
                   /\ j[1].status = "approved"
                   /\ j[2].createdAt <= cutoffTime}
      groups == {j[1] : j \in joined}
  IN {[post |-> p, voteCount |-> Cardinality({j \in joined : j[1] = p})] : p \in groups}

TrendingRows(hours) ==
  LET cutoffTime == now - hours * MinutesPerHour
      joined == {j \in posts \X votes :
                   /\ j[1].id = j[2].postId
                   /\ j[1].status = "approved"
                   /\ j[2].createdAt >= cutoffTime}
      groups == {j[1] : j \in joined}
  IN {[post |-> p, voteCount |-> Cardinality({j \in joined : j[1] = p})] : p \in groups}

getTrendingPosts(hours, limit) ==
  {Take(o, limit) : o \in OrderByCountDesc(TrendingRows(hours))}

(* Variant: the comparison with the limit admits one event too many.      *)
checkRateLimitInclusive(ipAddress, actionType, limit, windowMinutes) ==
  LET windowStart == now - windowMinutes
      result == Cardinality({r \in rateLimits :
                               /\ r.ipAddress = ipAddress
                               /\ r.actionType = actionType
                               /\ r.windowStart >= windowStart})
  IN result <= limit

(* Variant: the rows counted are those of the action type 'vote'.          *)
checkRateLimitOfVotes(ipAddress, actionType, limit, windowMinutes) ==
  LET windowStart == now - windowMinutes
      result == Cardinality({r \in rateLimits :
                               /\ r.ipAddress = ipAddress
                               /\ r.actionType = "vote"
                               /\ r.windowStart >= windowStart})
  IN result < limit

checkRateLimit(ipAddress, actionType, limit, windowMinutes) ==
  LET windowStart == now - windowMinutes
      result == Cardinality({r \in rateLimits :
                               /\ r.ipAddress = ipAddress
                               /\ r.actionType = actionType
                               /\ r.windowStart >= windowStart})
  IN result < limit

(* Variant: the event is recorded under another category.                 *)
incrementRateLimitAsVote(ipAddress, actionType) ==
  /\ rateLimits' = rateLimits \cup
       {[id |-> nextRateId, ipAddress |-> ipAddress, actionType |-> "vote",
         count |-> 1, windowStart |-> now]}
  /\ nextRateId' = nextRateId + 1

incrementRateLimit(ipAddress, actionType) ==
  /\ rateLimits' = rateLimits \cup
       {[id |-> nextRateId, ipAddress |-> ipAddress, actionType |-> actionType,
         count |-> 1, windowStart |-> now]}
  /\ nextRateId' = nextRateId + 1

(* Variant: the new row is approved from the start.                       *)
createPostApproved(category) ==
  /\ posts' = posts \cup {[id |-> nextPostId, category |-> category, status |-> "approved",
                           createdAt |-> now]}
  /\ nextPostId' = nextPostId + 1

createPost(category) ==
  /\ posts' = posts \cup {[id |-> nextPostId, category |-> category, status |-> "pending",
                           createdAt |-> now]}
  /\ nextPostId' = nextPostId + 1

updatePostStatus(id, status) ==
  posts' = {IF p.id = id THEN [p EXCEPT !.status = status] ELSE p : p \in posts}

(* Variant: the votes of the post are left behind.                        *)
deletePostOnly(id) ==
  /\ posts' = {p \in posts : p.id # id}
  /\ votes' = votes

(* DELETE FROM posts; votes.post_id REFERENCES posts ON DELETE cascade.   *)
deletePost(id) ==
  /\ posts' = {p \in posts : p.id # id}
  /\ votes' = {v \in votes : v.postId # id}

(* getActions(approved): the rows with that approved flag.  Every caller   *)
(* passes the flag and looks a name up in the result (names are unique),   *)
(* so the result is kept as a set.                                         *)
getActions(approved) == {a \in actions : a.approved = approved}

(* Variant: the actions table has no unique constraint on the name.       *)
ActionNameIsNotChecked(name) == TRUE

(* The unique constraint actions_name_unique: an insert of a name that is  *)
(* already there is refused by the database.                               *)
ActionNameIsFree(name) == \A a \in actions : a.name # name

(* Variant: the insert takes the approved flag of the request body.        *)
insertSuggestedActionFromBody(name, bodyApproved) ==
  /\ actions' = actions \cup
       {[id |-> nextActionId, name |-> name, approved |-> bodyApproved, isDefault |-> FALSE]}
  /\ nextActionId' = nextActionId + 1

(* db.insert(actions).values({...validatedData, approved: false}): the     *)
(* insert schema drops every field of the body but the name.               *)
insertSuggestedAction(name, bodyApproved) ==
  /\ actions' = actions \cup
       {[id |-> nextActionId, name |-> name, approved |-> FALSE, isDefault |-> FALSE]}
  /\ nextActionId' = nextActionId + 1

(* The loop of initializeDefaultActions from the i-th default name on:     *)
(* a name found among existingNames is skipped, any other is inserted as   *)
(* an approved default action; an insert refused by the unique constraint  *)
(* throws, and the catch around the loop ends the routine.                 *)
RECURSIVE SeedDefaults(_, _, _, _)
SeedDefaults(i, existingNames, rows, nextId) ==
  IF i > Len(DefaultActions)
    THEN [actions |-> rows, nextActionId |-> nextId]
  ELSE IF DefaultActions[i] \in existingNames
    THEN SeedDefaults(i + 1, existingNames, rows, nextId)
  ELSE IF \E a \in rows : a.name = DefaultActions[i]
    THEN [actions |-> rows, nextActionId |-> nextId]
  ELSE SeedDefaults(i + 1, existingNames,
                    rows \cup {[id |-> nextId, name |-> DefaultActions[i],
                                approved |-> TRUE, isDefault |-> TRUE]},
                    nextId + 1)

updateActionApproval(id, approved) ==
  actions' = {IF a.id = id THEN [a EXCEPT !.approved = approved] ELSE a : a \in actions}

(* DELETE FROM actions; votes.action_id REFERENCES actions ON DELETE      *)
(* cascade.                                                               *)
deleteAction(id) ==
  /\ actions' = {a \in actions : a.id # id}
  /\ votes' = {v \in votes : v.actionId # id}

(* The grouped left join of getPosts: every approved post (of the         *)
(* category, when one is given) with the number of the counted votes that  *)
(* are votes of it.                                                        *)
PostsWithVotes(category, counted) ==
  {[post |-> p, voteCount |-> Cardinality({v \in counted : v.postId = p.id})] :
     p \in {q \in posts : q.status = "approved" /\ (category = "" \/ q.category = category)}}

PostsOfPage(rows, limit, offset) ==
  {[i \in DOMAIN pg |-> pg[i].post] :
     pg \in {Page(o, limit, offset) : o \in OrderByCountDesc(rows)}}

(* Variant: the action name is looked up among all actions.               *)
getPostsOfAnyAction(status, category, limit, offset, action, sort) ==
  IF action # ""
    THEN LET allActions == actions
             targetAction == {a \in allActions : a.name = action}
         IN IF targetAction = {}
              THEN {<<>>}
              ELSE PostsOfPage(
                     PostsWithVotes(category,
                       {v \in votes : \E a \in targetAction : v.actionId = a.id}),
                     limit, offset)
  ELSE IF sort = "votes"
    THEN PostsOfPage(PostsWithVotes(category, votes), limit, offset)
  ELSE IF sort = "trending"
    THEN PostsOfPage(
           PostsWithVotes(category,
             {v \in votes : v.createdAt >= now - TrendingSortHours * MinutesPerHour}),
           limit, offset)
  ELSE {Page(o, limit, offset) :
          o \in OrderByCreatedAtDesc(
                  {p \in posts : /\ status = "" \/ p.status = status
                                 /\ category = "" \/ p.category = category})}

(* getPosts: the possible results.  An absent (or empty) status, category, *)
(* action or sort is the empty string.                                     *)
getPosts(status, category, limit, offset, action, sort) ==
  IF action # ""
    THEN LET allActions == getActions(TRUE)
             targetAction == {a \in allActions : a.name = action}
         IN IF targetAction = {}
              THEN {<<>>}
              ELSE PostsOfPage(
                     PostsWithVotes(category,
                       {v \in votes : \E a \in targetAction : v.actionId = a.id}),
                     limit, offset)
  ELSE IF sort = "votes"
    THEN PostsOfPage(PostsWithVotes(category, votes), limit, offset)
  ELSE IF sort = "trending"
    THEN PostsOfPage(
           PostsWithVotes(category,
             {v \in votes : v.createdAt >= now - TrendingSortHours * MinutesPerHour}),
           limit, offset)
  ELSE {Page(o, limit, offset) :
          o \in OrderByCreatedAtDesc(
                  {p \in posts : /\ status = "" \/ p.status = status
                                 /\ category = "" \/ p.category = category})}

(* searchPosts: the approved posts (of the category) whose name matches    *)
(* the query; matching is the set of the ids of the posts whose name does. *)
searchPosts(matching, category) ==
  OrderByCreatedAtDesc({p \in posts : /\ p.status = "approved"
                                      /\ p.id \in matching
                                      /\ category = "" \/ p.category = category})

(* The foreign keys of the votes table: an insert whose post or action    *)
(* row is missing is refused by the database.                             *)
VoteForeignKeysHold(postId, actionId) ==
  postId \in Ids(posts) /\ actionId \in Ids(actions)

(* Variant: a repeated vote removes the earlier one (un-voting).          *)
createVoteToggle(postId, actionId, ipAddress) ==
  /\ votes' =
       IF \E v \in votes : v.postId = postId /\ v.actionId = actionId /\ v.ipAddress = ipAddress
         THEN {v \in votes : ~(v.postId = postId /\ v.actionId = actionId
                                /\ v.ipAddress = ipAddress)}
         ELSE votes \cup {[id |-> nextVoteId, postId |-> postId, actionId |-> actionId,
                           ipAddress |-> ipAddress, createdAt |-> now]}
  /\ nextVoteId' = nextVoteId + 1

(* Variant: votes_unique_idx is a unique index and the insert skips a     *)
(* row whose (post, action, ip) is already there.                          *)
createVoteUnique(postId, actionId, ipAddress) ==
  /\ votes' =
       IF \E v \in votes : v.postId = postId /\ v.actionId = actionId /\ v.ipAddress = ipAddress
         THEN votes
         ELSE votes \cup {[id |-> nextVoteId, postId |-> postId, actionId |-> actionId,
                           ipAddress |-> ipAddress, createdAt |-> now]}
  /\ nextVoteId' = nextVoteId + 1

createVote(postId, actionId, ipAddress) ==
  /\ votes' = votes \cup
       {[id |-> nextVoteId, postId |-> postId, actionId |-> actionId,
         ipAddress |-> ipAddress, createdAt |-> now]}
  /\ nextVoteId' = nextVoteId + 1

(* --------------------------- request slots ----------------------------- *)
Blank ==
  [kind |-> "idle", pc |-> "idle", postId |-> 0, actionId |-> 0, ip |-> 0,
   category |-> "", post |-> {}, name |-> "", bodyApproved |-> FALSE, listing |-> <<>>]

NoResp ==
  [slot |-> 0, kind |-> "none", status |-> 0, why |-> "", postId |-> 0, actionId |-> 0, ip |-> 0,
   body |-> <<>>]

(* res.status(status).json(...) for the request r held by slot s.         *)
Respond(s, r, status, why) ==
  /\ reqs' = [reqs EXCEPT ![s] = Blank]
  /\ resp' = [slot |-> s, kind |-> r.kind, status |-> status, why |-> why,
              postId |-> r.postId, actionId |-> r.actionId, ip |-> r.ip, body |-> r.listing]

Goto(s, r) ==
  /\ reqs' = [reqs EXCEPT ![s] = r]
  /\ resp' = resp

InFlight(kind) == Cardinality({s \in Slots : reqs[s].kind = kind})

Quiet == \A s \in Slots : reqs[s].pc = "idle"

(* The response of a handler is visible in resp for one step, until it is *)
(* sent (res.json); nothing else happens in between.                     *)
Sent == resp = NoResp

Deliver ==
  /\ ~Sent
  /\ resp' = NoResp
  /\ UNCHANGED <<store, now, reqs, admitted, createdBy, httpReq, clientIP>>

(* --------------------------- client identity --------------------------- *)
(* A string is a sequence of pieces: an address, the prefix "::ffff:" (7   *)
(* characters), the loopback "::1", or blank space " ".  A header that is  *)
(* absent and one that is empty are both <<>>: the code tests them with    *)
(* `if (x)`, which is false for undefined and for ''.                      *)
MaxPieces == 2
Pieces == {"::ffff:", "::1", "10.0.0.1", " "}
Strings == UNION {[1..n -> Pieces] : n \in 0..MaxPieces}
Loopback == <<"127.0.0.1">>

startsWith(str, piece) == Len(str) > 0 /\ str[1] = piece

RECURSIVE trimStart(_)
trimStart(str) == IF startsWith(str, " ") THEN trimStart(Tail(str)) ELSE str

RECURSIVE trimEnd(_)
trimEnd(str) ==
  IF Len(str) > 0 /\ str[Len(str)] = " " THEN trimEnd(SubSeq(str, 1, Len(str) - 1)) ELSE str

trim(str) == trimEnd(trimStart(str))

normalizeIP(ip) ==
  IF ip = <<>> THEN Loopback
  ELSE LET bare == IF startsWith(ip, "::ffff:") THEN Tail(ip) ELSE ip
       IN IF bare = <<"::1">> THEN Loopback ELSE bare

(* httpReq: the headers cf-connecting-ip, x-real-ip and x-forwarded-for    *)
(* (its comma-separated entries), Express's req.ips and req.ip, and the    *)
(* remote address of the connection and of the socket.                     *)
NoRequest == [cf |-> <<>>, realIp |-> <<>>, ips |-> <<>>, ip |-> <<>>, xff |-> <<>>,
              connection |-> <<>>, socket |-> <<>>]

getClientIP(req) ==
  LET cfIp == trim(req.cf)
      realIp == trim(req.realIp)
      xffFirst == IF Len(req.xff) > 0 THEN trim(req.xff[1]) ELSE <<>>
  IN IF cfIp # <<>> THEN normalizeIP(cfIp)
     ELSE IF realIp # <<>> THEN normalizeIP(realIp)
     ELSE IF Len(req.ips) > 0 THEN normalizeIP(req.ips[1])
     ELSE IF req.ip # <<>> THEN normalizeIP(req.ip)
     ELSE IF xffFirst # <<>> THEN normalizeIP(xffFirst)
     ELSE normalizeIP(IF req.connection # <<>> THEN req.connection ELSE req.socket)

(* ------------------------------- Init ---------------------------------- *)
(* A fresh database after registerRoutes has run initializeDefaultActions. *)
InitServer ==
  /\ posts = {}
  /\ actions = {[id |-> i, name |-> DefaultActions[i], approved |-> TRUE, isDefault |-> TRUE] :
                  i \in 1..Len(DefaultActions)}
  /\ votes = {}
  /\ rateLimits = {}
  /\ nextPostId = 1
  /\ nextActionId = Len(DefaultActions) + 1
  /\ nextVoteId = 1
  /\ nextRateId = 1
  /\ now = 0
  /\ reqs = [s \in Slots |-> Blank]
  /\ resp = NoResp
  /\ admitted = <<>>
  /\ createdBy = [ip \in IPs |-> 0]
  /\ clientIP = <<>>

Init == InitServer /\ httpReq = NoRequest

(* ----------------------- POST /api/vote/:actionId ---------------------- *)
VoteBegin(s, bound, actionId, postId, ip, hasToken, captchaOk) ==
  /\ Sent
  /\ reqs[s].pc = "idle"
  /\ (nextVoteId - 1) + InFlight("vote") < bound
  /\ LET r == [Blank EXCEPT !.kind = "vote", !.pc = "getPostById",
                             !.postId = postId, !.actionId = actionId, !.ip = ip]
     IN IF ~hasToken THEN Respond(s, r, 400, "captcha")
        ELSE IF ~captchaOk THEN Respond(s, r, 403, "captcha")
        ELSE Goto(s, r)
  /\ UNCHANGED <<store, now, admitted, createdBy, httpReq, clientIP>>

VoteGetPost(s) ==
  /\ Sent
  /\ reqs[s].kind = "vote" /\ reqs[s].pc = "getPostById"
  /\ Goto(s, [reqs[s] EXCEPT !.pc = "getActionById", !.post = getPostById(reqs[s].postId)])
  /\ UNCHANGED <<store, now, admitted, createdBy, httpReq, clientIP>>

(* Variant: the action is validated before the post.                      *)
VoteGetActionFirst(s) ==
  /\ Sent
  /\ reqs[s].kind = "vote" /\ reqs[s].pc = "getActionById"
  /\ LET post == reqs[s].post
         action == getActionById(reqs[s].actionId)
     IN IF action = {} \/ \E a \in action : ~a.approved
          THEN Respond(s, reqs[s], 404, "action")
        ELSE IF post = {} \/ \E p \in post : p.status # "approved"
          THEN Respond(s, reqs[s], 404, "post")
        ELSE Goto(s, [reqs[s] EXCEPT !.pc = "createVote"])
  /\ UNCHANGED <<store, now, admitted, createdBy, httpReq, clientIP>>

VoteGetAction(s) ==
  /\ Sent
  /\ reqs[s].kind = "vote" /\ reqs[s].pc = "getActionById"
  /\ LET post == reqs[s].post
         action == getActionById(reqs[s].actionId)
     IN IF post = {} \/ \E p \in post : p.status # "approved"
          THEN Respond(s, reqs[s], 404, "post")
        ELSE IF action = {} \/ \E a \in action : ~a.approved
          THEN Respond(s, reqs[s], 404, "action")
        ELSE Goto(s, [reqs[s] EXCEPT !.pc = "createVote"])
  /\ UNCHANGED <<store, now, admitted, createdBy, httpReq, clientIP>>

VoteCreate(s) ==
  /\ Sent
  /\ reqs[s].kind = "vote" /\ reqs[s].pc = "createVote"
  /\ IF VoteForeignKeysHold(reqs[s].postId, reqs[s].actionId)
       THEN /\ createVote(reqs[s].postId, reqs[s].actionId, reqs[s].ip)
            /\ Respond(s, reqs[s], 201, "")
       ELSE /\ UNCHANGED <<votes, nextVoteId>>
            /\ Respond(s, reqs[s], 500, "")
  /\ UNCHANGED <<posts, actions, rateLimits, nextPostId, nextRateId, nextActionId, now, admitted, createdBy, httpReq, clientIP>>

(* --------------------------- POST /api/posts --------------------------- *)
(* Variant: a failed rate-limit query lets the submission through.         *)
PostBeginFailOpen(s, bound, ip, category, valid, hasFile, uploadOk, dbOk) ==
  /\ Sent
  /\ reqs[s].pc = "idle"
  /\ (nextPostId - 1) + InFlight("post") < bound
  /\ LET r == [Blank EXCEPT !.kind = "post", !.pc = "createPost",
                             !.ip = ip, !.category = category]
     IN IF dbOk /\ ~checkRateLimit(ip, "post", PostLimit, PostWindow)
          THEN Respond(s, r, 429, "")
        ELSE IF ~valid THEN Respond(s, r, 400, "validation")
        ELSE IF ~hasFile THEN Respond(s, r, 400, "image")
        ELSE IF ~uploadOk THEN Respond(s, r, 500, "upload")
        ELSE Goto(s, r)
  /\ UNCHANGED <<store, now, admitted, createdBy, httpReq, clientIP>>

(* dbOk tells whether the storage call of the step succeeds; a call that   *)
(* fails throws, and the catch of the handler answers 500.                 *)
PostBegin(s, bound, ip, category, valid, hasFile, uploadOk, dbOk) ==
  /\ Sent
  /\ reqs[s].pc = "idle"
  /\ (nextPostId - 1) + InFlight("post") < bound
  /\ LET r == [Blank EXCEPT !.kind = "post", !.pc = "createPost",
                             !.ip = ip, !.category = category]
     IN IF ~dbOk THEN Respond(s, r, 500, "checkRateLimit")
        ELSE IF ~checkRateLimit(ip, "post", PostLimit, PostWindow)
          THEN Respond(s, r, 429, "")
        ELSE IF ~valid THEN Respond(s, r, 400, "validation")
        ELSE IF ~hasFile THEN Respond(s, r, 400, "image")
        ELSE IF ~uploadOk THEN Respond(s, r, 500, "upload")
        ELSE Goto(s, r)
  /\ UNCHANGED <<store, now, admitted, createdBy, httpReq, clientIP>>

(* Variant: the rate-limit event is recorded also when the insert of the  *)
(* post fails.                                                             *)
PostCreateCountsAttempt(s, dbOk) ==
  /\ Sent
  /\ reqs[s].kind = "post" /\ reqs[s].pc = "createPost"
  /\ IF dbOk
       THEN /\ createPost(reqs[s].category)
            /\ createdBy' = [createdBy EXCEPT ![reqs[s].ip] = @ + 1]
            /\ Goto(s, [reqs[s] EXCEPT !.pc = "incrementRateLimit", !.postId = nextPostId])
            /\ UNCHANGED <<rateLimits, nextRateId>>
       ELSE /\ UNCHANGED <<posts, nextPostId, createdBy>>
            /\ incrementRateLimit(reqs[s].ip, "post")
            /\ Respond(s, reqs[s], 500, "createPost")
  /\ UNCHANGED <<actions, votes, nextVoteId, nextActionId, now, admitted, httpReq, clientIP>>

(* createdBy counts, for each ip address, the posts its submissions have   *)
(* inserted (posts rows do not record who submitted them).                 *)
PostCreate(s, dbOk) ==
  /\ Sent
  /\ reqs[s].kind = "post" /\ reqs[s].pc = "createPost"
  /\ IF dbOk
       THEN /\ createPost(reqs[s].category)
            /\ createdBy' = [createdBy EXCEPT ![reqs[s].ip] = @ + 1]
            /\ Goto(s, [reqs[s] EXCEPT !.pc = "incrementRateLimit", !.postId = nextPostId])
       ELSE /\ UNCHANGED <<posts, nextPostId, createdBy>>
            /\ Respond(s, reqs[s], 500, "createPost")
  /\ UNCHANGED <<actions, votes, rateLimits, nextVoteId, nextRateId, nextActionId, now,
                 admitted, httpReq, clientIP>>

PostIncrement(s, dbOk) ==
  /\ Sent
  /\ reqs[s].kind = "post" /\ reqs[s].pc = "incrementRateLimit"
  /\ IF dbOk
       THEN /\ incrementRateLimit(reqs[s].ip, "post")
            /\ admitted' = Append(admitted,
                                  [ipAddress |-> reqs[s].ip, actionType |-> "post", at |-> now])
            /\ Respond(s, reqs[s], 201, "")
       ELSE /\ UNCHANGED <<rateLimits, nextRateId, admitted>>
            /\ Respond(s, reqs[s], 500, "incrementRateLimit")
  /\ UNCHANGED <<posts, actions, votes, nextPostId, nextVoteId, nextActionId, now,
                 createdBy, httpReq, clientIP>>

(* ----------------------------- public reads --------------------------- *)
(* A query parameter is a sequence: empty when the request does not carry  *)
(* it, else holding its value.  const { p = d } = req.query.               *)
Param(param, default) == IF param = <<>> THEN default ELSE param[1]

RECURSIVE SumOfCounts(_)
SumOfCounts(rows) ==
  IF rows = {} THEN 0
  ELSE LET r == CHOOSE x \in rows : TRUE
       IN r.count + SumOfCounts(rows \ {r})

(* { ...post, votes, totalVotes }: votes maps the name of each action of   *)
(* getPostVotes(post.id) to its count, totalVotes is the sum of the map.   *)
WithVotes(post) ==
  LET voteCounts == getPostVotes(post.id)
      names == {vc.action.name : vc \in voteCounts}
      votesByName == [n \in names |-> (CHOOSE vc \in voteCounts : vc.action.name = n).count]
  IN [post |-> post,
      votes |-> votesByName,
      totalVotes |-> SumOfCounts({[name |-> n, count |-> votesByName[n]] : n \in names})]

PostsWithVotesOf(listings) ==
  {[i \in DOMAIN r |-> WithVotes(r[i])] : r \in listings}

(* GET /api/posts: the possible response bodies.                           *)
ApiPosts(category, limit, offset, sort, action) ==
  PostsWithVotesOf(getPosts("approved", Param(category, ""), Param(limit, DefaultLimit),
                            Param(offset, 0), Param(action, ""), Param(sort, "recent")))

(* GET /api/posts as the handler runs it: the ordering query getPosts,    *)
(* then one getPostVotes query for each listed post (Promise.all: they     *)
(* complete in any order), then the response.  listing holds the posts in  *)
(* the order of getPosts, each with its votes once its query has answered. *)
ListBegin(s, category, limit, offset, sort, action) ==
  /\ Sent
  /\ reqs[s].pc = "idle"
  /\ \E posts_ \in getPosts("approved", Param(category, ""), Param(limit, DefaultLimit),
                            Param(offset, 0), Param(action, ""), Param(sort, "recent")) :
       Goto(s, [Blank EXCEPT !.kind = "list", !.pc = "getPostVotes",
                             !.listing = [i \in DOMAIN posts_ |->
                                            [post |-> posts_[i], votes |-> <<>>,
                                             totalVotes |-> 0, done |-> FALSE]]])
  /\ UNCHANGED <<store, now, admitted, createdBy, httpReq, clientIP>>

ListGetPostVotes(s) ==
  /\ Sent
  /\ reqs[s].kind = "list" /\ reqs[s].pc = "getPostVotes"
  /\ \E i \in DOMAIN reqs[s].listing :
       /\ ~reqs[s].listing[i].done
       /\ LET row == WithVotes(reqs[s].listing[i].post)
          IN Goto(s, [reqs[s] EXCEPT !.listing[i] =
                        [post |-> row.post, votes |-> row.votes,
                         totalVotes |-> row.totalVotes, done |-> TRUE]])
  /\ UNCHANGED <<store, now, admitted, createdBy, httpReq, clientIP>>

ListRespond(s) ==
  /\ Sent
  /\ reqs[s].kind = "list" /\ reqs[s].pc = "getPostVotes"
  /\ \A i \in DOMAIN reqs[s].listing : reqs[s].listing[i].done
  /\ Respond(s, reqs[s], 200, "")
  /\ UNCHANGED <<store, now, admitted, createdBy, httpReq, clientIP>>

(* GET /api/search with a query; matching as in searchPosts.               *)
ApiSearch(matching, category) ==
  PostsWithVotesOf(searchPosts(matching, Param(category, "")))

(* Variant: the action is looked up by name among all actions.             *)
ApiLeaderboardOfAnyAction(actionName, limit) ==
  LET found == {a \in actions : a.name = Param(actionName, DefaultLeaderboardAction)}
  IN IF found = {}
       THEN {[status |-> 404, body |-> <<>>]}
       ELSE {[status |-> 200, body |-> r] :
               r \in UNION {getLeaderboard(a.id, Param(limit, DefaultLeaderboardLimit)) :
                              a \in found}}

(* GET /api/leaderboard: the possible responses.                           *)
ApiLeaderboard(actionName, limit) ==
  LET found == {a \in getActions(TRUE) : a.name = Param(actionName, DefaultLeaderboardAction)}
  IN IF found = {}
       THEN {[status |-> 404, body |-> <<>>]}
       ELSE {[status |-> 200, body |-> r] :
               r \in UNION {getLeaderboard(a.id, Param(limit, DefaultLeaderboardLimit)) :
                              a \in found}}

(* GET /api/trending.                                                      *)
ApiTrending(hours, limit) ==
  getTrendingPosts(Param(hours, DefaultTrendingHours), Param(limit, DefaultLeaderboardLimit))

(* GET /api/_debug/pending-posts, served without authentication.           *)
ApiDebugPendingPosts == getPosts("pending", "", DefaultLimit, 0, "", "")

(* -------------------------- POST /api/actions -------------------------- *)
ActionBegin(s, bound, ip, name, bodyApproved, valid, dbOk) ==
  /\ Sent
  /\ reqs[s].pc = "idle"
  /\ (nextActionId - 1 - Len(DefaultActions)) + InFlight("suggest") < bound
  /\ LET r == [Blank EXCEPT !.kind = "suggest", !.pc = "insertAction",
                             !.ip = ip, !.name = name, !.bodyApproved = bodyApproved]
     IN IF ~dbOk THEN Respond(s, r, 500, "checkRateLimit")
        ELSE IF ~checkRateLimit(ip, "action_suggestion", SuggestLimit, SuggestWindow)
          THEN Respond(s, r, 429, "")
        ELSE IF ~valid THEN Respond(s, r, 400, "validation")
        ELSE Goto(s, r)
  /\ UNCHANGED <<store, now, admitted, createdBy, httpReq, clientIP>>

ActionInsert(s, dbOk) ==
  /\ Sent
  /\ reqs[s].kind = "suggest" /\ reqs[s].pc = "insertAction"
  /\ IF dbOk /\ ActionNameIsFree(reqs[s].name)
       THEN /\ insertSuggestedAction(reqs[s].name, reqs[s].bodyApproved)
            /\ Goto(s, [reqs[s] EXCEPT !.pc = "incrementRateLimit", !.actionId = nextActionId])
       ELSE /\ UNCHANGED <<actions, nextActionId>>
            /\ Respond(s, reqs[s], 500, IF dbOk THEN "" ELSE "insertAction")
  /\ UNCHANGED <<posts, votes, rateLimits, nextPostId, nextVoteId, nextRateId, now,
                 admitted, createdBy, httpReq, clientIP>>

ActionIncrement(s, dbOk) ==
  /\ Sent
  /\ reqs[s].kind = "suggest" /\ reqs[s].pc = "incrementRateLimit"
  /\ IF dbOk
       THEN /\ incrementRateLimit(reqs[s].ip, "action_suggestion")
            /\ admitted' = Append(admitted, [ipAddress |-> reqs[s].ip,
                                             actionType |-> "action_suggestion", at |-> now])
            /\ Respond(s, reqs[s], 201, "")
       ELSE /\ UNCHANGED <<rateLimits, nextRateId, admitted>>
            /\ Respond(s, reqs[s], 500, "incrementRateLimit")
  /\ UNCHANGED <<posts, actions, votes, nextPostId, nextActionId, nextVoteId, now,
                 createdBy, httpReq, clientIP>>

(* ------------------------------- startup ------------------------------- *)
(* A start of the server process on the store as it is: registerRoutes     *)
(* runs initializeDefaultActions before any route is served.               *)
initializeDefaultActions(bound) ==
  /\ Sent
  /\ LET existingActions == getActions(TRUE)
         existingNames == {a.name : a \in existingActions}
         seeded == SeedDefaults(1, existingNames, actions, nextActionId)
     IN /\ seeded.nextActionId - 1 - Len(DefaultActions) <= bound
        /\ actions' = seeded.actions
        /\ nextActionId' = seeded.nextActionId
  /\ UNCHANGED <<posts, votes, rateLimits, nextPostId, nextVoteId, nextRateId,
                 now, reqs, resp, admitted, createdBy, httpReq, clientIP>>

(* ---------------------------- admin routes ----------------------------- *)
(* res.status(status).json(...) of a handler that runs in one step.       *)
Answer(kind, status, why, postId, actionId) ==
  resp' = [slot |-> 0, kind |-> kind, status |-> status, why |-> why,
           postId |-> postId, actionId |-> actionId, ip |-> 0, body |-> <<>>]

(* Variant: the status of the request body is not validated.              *)
AdminPatchPostAnyStatus(id, status) ==
  /\ Sent
  /\ updatePostStatus(id, status)
  /\ Answer("adminPatchPost", 200, "", id, 0)
  /\ UNCHANGED <<actions, votes, rateLimits, nextPostId, nextVoteId, nextRateId,
                 nextActionId, now, reqs, admitted, createdBy, httpReq, clientIP>>

AdminPatchPost(id, status) ==
  /\ Sent
  /\ IF status \notin {"approved", "rejected"}
       THEN /\ posts' = posts
            /\ Answer("adminPatchPost", 400, "status", id, 0)
       ELSE /\ updatePostStatus(id, status)
            /\ Answer("adminPatchPost", 200, "", id, 0)
  /\ UNCHANGED <<actions, votes, rateLimits, nextPostId, nextVoteId, nextRateId,
                 nextActionId, now, reqs, admitted, createdBy, httpReq, clientIP>>

(* POST /api/admin/posts/bulk-approve: updatePostStatus(id, 'approved')   *)
(* for every id of the array; the updates touch different rows and are     *)
(* taken together.                                                         *)
AdminBulkApprove(postIds, isArray) ==
  /\ Sent
  /\ IF ~isArray
       THEN /\ posts' = posts
            /\ Answer("adminBulkApprove", 400, "postIds", 0, 0)
       ELSE /\ posts' = {IF p.id \in postIds THEN [p EXCEPT !.status = "approved"] ELSE p :
                           p \in posts}
            /\ Answer("adminBulkApprove", 200, "", 0, 0)
  /\ UNCHANGED <<actions, votes, rateLimits, nextPostId, nextVoteId, nextRateId,
                 nextActionId, now, reqs, admitted, createdBy, httpReq, clientIP>>

AdminDeletePost(id) ==
  /\ Sent
  /\ deletePost(id)
  /\ UNCHANGED <<actions, rateLimits, nextPostId, nextVoteId, nextRateId,
                 nextActionId, now, reqs, resp, admitted, createdBy, httpReq, clientIP>>

AdminPatchAction(id, approved) ==
  /\ Sent
  /\ updateActionApproval(id, approved)
  /\ UNCHANGED <<posts, votes, rateLimits, nextPostId, nextVoteId, nextRateId,
                 nextActionId, now, reqs, resp, admitted, createdBy, httpReq, clientIP>>

AdminDeleteAction(id) ==
  /\ Sent
  /\ deleteAction(id)
  /\ UNCHANGED <<posts, rateLimits, nextPostId, nextVoteId, nextRateId,
                 nextActionId, now, reqs, resp, admitted, createdBy, httpReq, clientIP>>

(* -------------------------------- clock -------------------------------- *)
Tick ==
  /\ Sent
  /\ now + TickMinutes <= MaxTicks * TickMinutes
  /\ now' = now + TickMinutes
  /\ UNCHANGED <<store, reqs, resp, admitted, createdBy, httpReq, clientIP>>

(* ------------------------------ behaviours ----------------------------- *)
ActionIdInputs == {1, 2}

VoteRequest(s, maxVotes, maxPosts, ips, tokens) ==
  \E actionId \in ActionIdInputs, postId \in 1..maxPosts, ip \in ips,
     hasToken \in tokens, captchaOk \in tokens :
    VoteBegin(s, maxVotes, actionId, postId, ip, hasToken, captchaOk)

PostRequest(s, maxPosts, ips, flags) ==
  \E ip \in ips, category \in {"film"},
     valid \in flags, hasFile \in flags, uploadOk \in flags :
    PostBegin(s, maxPosts, ip, category, valid, hasFile, uploadOk, TRUE)

VoteSteps(s) == VoteGetPost(s) \/ VoteGetAction(s) \/ VoteCreate(s)

PostSteps(s) == PostCreate(s, TRUE) \/ PostIncrement(s, TRUE)

PostModeration(maxPosts) ==
  \/ \E id \in 1..maxPosts, status \in {"approved", "rejected"} : AdminPatchPost(id, status)
  \/ \E id \in 1..maxPosts : AdminDeletePost(id)

ActionModeration ==
  \/ \E id \in ActionIdInputs, approved \in BOOLEAN : AdminPatchAction(id, approved)
  \/ \E id \in ActionIdInputs : AdminDeleteAction(id)

SuggestedNames == {"slap", "applaud"}

ActionRequest(s, maxActions, ips, flags) ==
  \E ip \in ips, name \in SuggestedNames, bodyApproved \in BOOLEAN, valid \in flags :
    ActionBegin(s, maxActions, ip, name, bodyApproved, valid, TRUE)

ActionSteps(s) == ActionInsert(s, TRUE) \/ ActionIncrement(s, TRUE)

(* Requests interleave freely with each other and with the moderators.    *)
Next ==
  \/ \E s \in Slots : VoteRequest(s, MaxVotes, MaxPosts, {1}, {TRUE})
  \/ \E s \in Slots : PostRequest(s, MaxPosts, {1}, {TRUE})
  \/ \E s \in Slots : VoteSteps(s)
  \/ \E s \in Slots : PostSteps(s)
  \/ PostModeration(MaxPosts)
  \/ ActionModeration
  \/ Deliver

Spec == Init /\ [][Next]_vars

(* One request at a time: a request runs to its response before anything  *)
(* else happens.                                                           *)
NextSeq ==
  \/ Quiet /\ VoteRequest(1, MaxVotes, MaxPosts, IPs, BOOLEAN)
  \/ Quiet /\ PostRequest(1, MaxPosts, {1}, {TRUE})
  \/ VoteSteps(1)
  \/ PostSteps(1)
  \/ Quiet /\ PostModeration(MaxPosts)
  \/ Quiet /\ ActionModeration
  \/ Deliver

SpecSeq == Init /\ [][NextSeq]_vars

(* One request at a time, several posts: the leaderboard.                 *)
NextBoard ==
  \/ Quiet /\ VoteRequest(1, BoardVotes, BoardPosts, {1}, {TRUE})
  \/ Quiet /\ PostRequest(1, BoardPosts, {1}, {TRUE})
  \/ VoteSteps(1)
  \/ PostSteps(1)
  \/ Quiet /\ PostModeration(BoardPosts)
  \/ Deliver

SpecBoard == Init /\ [][NextBoard]_vars

(* One request at a time, with the clock running: the trending window.    *)
NextTrend ==
  \/ Quiet /\ VoteRequest(1, MaxVotes, MaxPosts, {1}, {TRUE})
  \/ Quiet /\ PostRequest(1, MaxPosts, {1}, {TRUE})
  \/ VoteSteps(1)
  \/ PostSteps(1)
  \/ Quiet /\ PostModeration(MaxPosts)
  \/ Quiet /\ Tick
  \/ Deliver

SpecTrend == Init /\ [][NextTrend]_vars

(* Sequential post submissions only: the rate limiter at work.            *)
NextRate ==
  \/ Quiet /\ PostRequest(1, MaxRatePosts, IPs, BOOLEAN)
  \/ PostSteps(1)
  \/ Quiet /\ Tick
  \/ Deliver

SpecRate == Init /\ [][NextRate]_vars

(* One request at a time: suggestions, moderation of the actions, and      *)
(* restarts of the server.                                                 *)
NextActions ==
  \/ Quiet /\ ActionRequest(1, MaxActions, {1}, BOOLEAN)
  \/ ActionSteps(1)
  \/ Quiet /\ \E id \in Ids(actions), approved \in BOOLEAN : AdminPatchAction(id, approved)
  \/ Quiet /\ \E id \in Ids(actions) : AdminDeleteAction(id)
  \/ Quiet /\ initializeDefaultActions(MaxActions)
  \/ Deliver

SpecActions == Init /\ [][NextActions]_vars

(* One request at a time: submissions and the moderation of the posts,    *)
(* with every status a moderator may send.                                 *)
StatusInputs == {"approved", "rejected", "pending"}

NextModeration ==
  \/ Quiet /\ PostRequest(1, BoardPosts, {1}, {TRUE})
  \/ PostSteps(1)
  \/ Quiet /\ \E id \in 1..BoardPosts, status \in StatusInputs : AdminPatchPost(id, status)
  \/ Quiet /\ \E postIds \in SUBSET (1..BoardPosts), isArray \in BOOLEAN :
                AdminBulkApprove(postIds, isArray)
  \/ Quiet /\ \E id \in 1..BoardPosts : AdminDeletePost(id)
  \/ Deliver

SpecModeration == Init /\ [][NextModeration]_vars

(* One request at a time: votes for slap and hug, moderation of the posts  *)
(* and of the actions slap and love (the default of the leaderboard).      *)
LeaderboardActionIds == {1, 4}

NextListing ==
  \/ Quiet /\ VoteRequest(1, MaxVotes, MaxPosts, {1}, {TRUE})
  \/ Quiet /\ PostRequest(1, MaxPosts, {1}, {TRUE})
  \/ VoteSteps(1)
  \/ PostSteps(1)
  \/ Quiet /\ PostModeration(MaxPosts)
  \/ Quiet /\ \E id \in LeaderboardActionIds, approved \in BOOLEAN : AdminPatchAction(id, approved)
  \/ Quiet /\ \E id \in LeaderboardActionIds : AdminDeleteAction(id)
  \/ Deliver

SpecListing == Init /\ [][NextListing]_vars

(* Concurrent votes: two vote handlers interleave with each other, with   *)
(* the approval and the deletion of posts and with the deletion of         *)
(* actions; posts are submitted one at a time.                             *)
NextVotes ==
  \/ \E s \in Slots : VoteRequest(s, MaxVotes, MaxPosts, {1}, {TRUE})
  \/ Quiet /\ PostRequest(1, MaxPosts, {1}, {TRUE})
  \/ PostSteps(1)
  \/ \E s \in Slots : VoteSteps(s)
  \/ Quiet /\ \E id \in 1..MaxPosts : AdminPatchPost(id, "approved")
  \/ \E id \in 1..MaxPosts : AdminDeletePost(id)
  \/ \E id \in ActionIdInputs : AdminDeleteAction(id)
  \/ Deliver

SpecVotes == Init /\ [][NextVotes]_vars

(* Racing submissions: the handlers of both slots serve submissions of    *)
(* one ip address and interleave freely, while time passes.                *)
NextRace ==
  \/ \E s \in Slots : PostRequest(s, RacePosts, {1}, {TRUE})
  \/ \E s \in Slots : PostSteps(s)
  \/ Tick
  \/ Deliver

SpecRace == Init /\ [][NextRace]_vars

(* Storage faults: submissions and suggestions, one at a time, in which   *)
(* any storage call may fail.                                              *)
PostRequestFaulty(s, maxPosts, ips, flags) ==
  \E ip \in ips, category \in {"film"},
     valid \in flags, hasFile \in flags, uploadOk \in flags, dbOk \in BOOLEAN :
    PostBegin(s, maxPosts, ip, category, valid, hasFile, uploadOk, dbOk)

PostStepsFaulty(s) == \E dbOk \in BOOLEAN : PostCreate(s, dbOk) \/ PostIncrement(s, dbOk)

ActionRequestFaulty(s, maxActions, ips, flags) ==
  \E ip \in ips, name \in SuggestedNames, bodyApproved \in BOOLEAN, valid \in flags,
     dbOk \in BOOLEAN :
    ActionBegin(s, maxActions, ip, name, bodyApproved, valid, dbOk)

ActionStepsFaulty(s) == \E dbOk \in BOOLEAN : ActionInsert(s, dbOk) \/ ActionIncrement(s, dbOk)

NextFaults ==
  \/ Quiet /\ PostRequestFaulty(1, MaxRatePosts, IPs, BOOLEAN)
  \/ PostStepsFaulty(1)
  \/ Quiet /\ ActionRequestFaulty(1, MaxActions, {1}, BOOLEAN)
  \/ ActionStepsFaulty(1)
  \/ Deliver

SpecFaults == Init /\ [][NextFaults]_vars

(* The posts list read while votes come in: slot 1 serves GET /api/posts   *)
(* sorted by votes, slot 2 serves votes; posts are submitted and moderated *)
(* while no request is in flight.                                          *)
ListSteps(s) == ListGetPostVotes(s) \/ ListRespond(s)

NextList ==
  \/ ListBegin(1, <<>>, <<>>, <<>>, <<"votes">>, <<>>)
  \/ ListSteps(1)
  \/ VoteRequest(2, BoardVotes, BoardPosts, {1}, {TRUE})
  \/ VoteSteps(2)
  \/ Quiet /\ PostRequest(1, BoardPosts, {1}, {TRUE})
  \/ PostSteps(1)
  \/ Quiet /\ PostModeration(BoardPosts)
  \/ \E id \in ActionIdInputs : AdminDeleteAction(id)
  \/ Deliver

SpecList == Init /\ [][NextList]_vars

(* The requests whose identity is resolved: any cf-connecting-ip header,   *)
(* and each other source either absent or present.                         *)
HttpRequests ==
  [cf : Strings,
   realIp : {<<>>, <<"::1">>},
   ips : {<<>>, << <<"::ffff:", "10.0.0.1">> >>},
   ip : {<<>>, <<"::ffff:", "10.0.0.1">>},
   xff : {<<>>, << <<" ", "10.0.0.1">>, <<"::1">> >>},
   connection : {<<>>, <<"::1">>},
   socket : {<<>>, <<"::ffff:", "::1">>}]

(* A handler resolves the identity of its request; clientIP holds the      *)
(* identities resolved so far (at most one).                               *)
ResolveClientIP ==
  /\ clientIP = <<>>
  /\ clientIP' = <<getClientIP(httpReq)>>
  /\ UNCHANGED <<store, now, reqs, resp, admitted, createdBy, httpReq>>

InitIP == InitServer /\ httpReq \in HttpRequests

NextIP == ResolveClientIP

SpecIP == InitIP /\ [][NextIP]_vars

(* ------------------------------- claims -------------------------------- *)
(* Every action id ever handed out.                                        *)
ActionIdUniverse == 1..(nextActionId - 1)

(* Every post id ever handed out, and the next one, which no post has.     *)
PostIdUniverse == 1..nextPostId

VoteRows(p, a) == {v \in votes : v.postId = p /\ v.actionId = a}

ApprovedPost(id) == \E p \in posts : p.id = id /\ p.status = "approved"

ApprovedAction(id) == \E a \in actions : a.id = id /\ a.approved

SameTriple(v, w) ==
  v.postId = w.postId /\ v.actionId = w.actionId /\ v.ipAddress = w.ipAddress

(* C1: for every post p and action a, getPostVotes(p) has exactly one row  *)
(* for a, carrying the number of vote rows with postId = p and             *)
(* actionId = a, when that number is positive, and no row for a otherwise; *)
(* a step that writes neither votes nor actions leaves every getPostVotes  *)
(* result as it was.                                                       *)
C1_CountsExact ==
  \A p \in PostIdUniverse :
    LET result == getPostVotes(p)
    IN \A a \in ActionIdUniverse :
         LET n == Cardinality(VoteRows(p, a))
             rows == {r \in result : r.action.id = a}
         IN IF n = 0 THEN rows = {}
            ELSE \E r \in rows : rows = {r} /\ r.count = n /\ r.action \in actions

C1_ReadIsStable ==
  (votes' = votes /\ actions' = actions) =>
    \A p \in PostIdUniverse : getPostVotes(p)' = getPostVotes(p)

C1_PostVoteCounts == [](C1_CountsExact) /\ [][C1_ReadIsStable]_vars

C1_Witness ==
  \E p \in PostIdUniverse : \E r \in getPostVotes(p) : r.count >= 2

(* C2: the vote store never holds two rows with the same (post, action,    *)
(* ip address).                                                            *)
C2_OneVotePerTriple ==
  \A v, w \in votes : SameTriple(v, w) => v = w

(* C3: open mode.  A vote request that passed the captcha check and        *)
(* targets an approved post and an approved action reads both, is not      *)
(* turned away, and its insert adds exactly one new row for its (post,     *)
(* action, ip) whatever rows are already there, answering 201; no vote     *)
(* request is ever answered 429 or rejected as a duplicate.                *)
C3_Step ==
  /\ \A s \in Slots :
       LET r == reqs[s]
       IN (/\ r.kind = "vote"
           /\ reqs'[s] # r
           /\ ApprovedPost(r.postId)
           /\ ApprovedAction(r.actionId))
          => CASE r.pc = "getPostById" -> reqs'[s].pc = "getActionById"
               [] r.pc = "getActionById" -> reqs'[s].pc = "createVote"
               [] r.pc = "createVote" ->
                    /\ resp'.kind = "vote" /\ resp'.status = 201
                    /\ Cardinality(votes') = Cardinality(votes) + 1
                    /\ \E v \in votes' \ votes :
                         /\ votes' = votes \cup {v}
                         /\ v.postId = r.postId
                         /\ v.actionId = r.actionId
                         /\ v.ipAddress = r.ip
               [] OTHER -> TRUE
  /\ resp'.kind = "vote" => resp'.status \in {201, 400, 403, 404}
  /\ (resp'.kind = "vote" /\ resp'.status = 400) => resp'.why = "captcha"

C4_Always404 ==
  (resp.kind = "vote" /\ ~(ApprovedPost(resp.postId) /\ ApprovedAction(resp.actionId)))
    => resp.status = 404

(* C4 amended: a vote request that passed the captcha check and whose post *)
(* is missing or not approved, or whose action is missing or not approved, *)
(* is answered 404, naming the post when the post is at fault and the      *)
(* action only when the post is approved; a request turned away with 400,  *)
(* 403 or 404 leaves the vote store unchanged, and a row is added only by  *)
(* a request answered 201.                                                 *)
C4_Answer ==
  (/\ resp.kind = "vote"
   /\ resp.why # "captcha"
   /\ ~(ApprovedPost(resp.postId) /\ ApprovedAction(resp.actionId)))
    => /\ resp.status = 404
       /\ resp.why = IF ApprovedPost(resp.postId) THEN "action" ELSE "post"

C4_Frame ==
  /\ (resp'.kind = "vote" /\ resp'.status \in {400, 403, 404})
       => (votes' = votes /\ nextVoteId' = nextVoteId)
  /\ (votes' \ votes # {}) => (resp'.kind = "vote" /\ resp'.status = 201)

C4_NotApproved404 == [](C4_Answer) /\ [][C4_Frame]_vars

C4_Witness ==
  /\ resp.kind = "vote" /\ resp.status = 404 /\ resp.why = "post"
  /\ ~ApprovedPost(resp.postId)
  /\ ~ApprovedAction(resp.actionId)
  /\ votes # {}

(* Successful submissions (201) of an identity in a category that lie in  *)
(* the window of windowMinutes ending now.                                 *)
AdmittedInWindow(ipAddress, actionType, windowMinutes) ==
  Cardinality({i \in DOMAIN admitted :
                 /\ admitted[i].ipAddress = ipAddress
                 /\ admitted[i].actionType = actionType
                 /\ admitted[i].at >= now - windowMinutes})

AdmittedEver(ipAddress, actionType) ==
  Cardinality({i \in DOMAIN admitted :
                 admitted[i].ipAddress = ipAddress /\ admitted[i].actionType = actionType})

(* C5: rate limiter law for post submissions (maxEvents = 5, window = 60   *)
(* minutes).  For every identity, never more than maxEvents admitted       *)
(* events lie in the window, and checkRateLimit answers true exactly when  *)
(* fewer than maxEvents admitted events lie in the window: false after     *)
(* maxEvents of them, true again once enough of them have left the window. *)
C5_RateLimiterLaw ==
  \A ip \in IPs :
    LET k == AdmittedInWindow(ip, "post", PostWindow)
    IN /\ k <= PostLimit
       /\ checkRateLimit(ip, "post", PostLimit, PostWindow) <=> (k < PostLimit)

C5_Witness ==
  \E ip \in IPs :
    /\ AdmittedEver(ip, "post") > PostLimit
    /\ AdmittedInWindow(ip, "post", PostWindow) < PostLimit
    /\ checkRateLimit(ip, "post", PostLimit, PostWindow)

(* C6: sequential post submissions of one ip address.  A submission is     *)
(* let through to createPost only while fewer than 5 earlier successful    *)
(* submissions of that address lie in the last 60 minutes, and it then     *)
(* creates one pending post and is answered 201; a submission is answered  *)
(* 429 exactly when 5 of them lie in the last 60 minutes, and it then      *)
(* creates no post and records no event.                                   *)
C6_Step ==
  /\ \A s \in Slots :
       /\ (reqs[s].pc = "idle" /\ reqs'[s].pc = "createPost")
            => AdmittedInWindow(reqs'[s].ip, "post", PostWindow) < PostLimit
       /\ (reqs[s].pc = "createPost" /\ reqs'[s] # reqs[s])
            => /\ reqs'[s].pc = "incrementRateLimit"
               /\ Cardinality(posts') = Cardinality(posts) + 1
               /\ \E p \in posts' \ posts : posts' = posts \cup {p} /\ p.status = "pending"
       /\ (reqs[s].pc = "incrementRateLimit" /\ reqs'[s] # reqs[s])
            => (resp'.kind = "post" /\ resp'.status = 201 /\ posts' = posts)
  /\ (resp' # resp /\ resp'.kind = "post")
       => /\ (resp'.status = 429) <=> (AdmittedInWindow(resp'.ip, "post", PostWindow) = PostLimit)
          /\ (resp'.status = 429) => (posts' = posts /\ rateLimits' = rateLimits)

C6_SixthPostIs429 == [][C6_Step]_vars

C6_Witness ==
  /\ resp.kind = "post" /\ resp.status = 429
  /\ AdmittedInWindow(resp.ip, "post", PostWindow) = PostLimit
  /\ Cardinality(posts) = PostLimit

(* C7: no vote references a post or an action that does not exist, and a   *)
(* post that does not exist has no vote counts; a step that removes a post *)
(* (an action) removes exactly the votes of that post (that action) and    *)
(* nothing else.                                                           *)
C7_Integrity ==
  /\ \A v \in votes : v.postId \in Ids(posts) /\ v.actionId \in Ids(actions)
  /\ \A p \in PostIdUniverse : p \notin Ids(posts) => getPostVotes(p) = {}

C7_Step ==
  /\ \A p \in PostIdUniverse :
       (p \in Ids(posts) /\ p \notin Ids(posts'))
         => /\ votes' = {v \in votes : v.postId # p}
            /\ posts' = {q \in posts : q.id # p}
            /\ getPostVotes(p)' = {}
  /\ \A a \in ActionIdUniverse :
       (a \in Ids(actions) /\ a \notin Ids(actions'))
         => /\ votes' = {v \in votes : v.actionId # a}
            /\ actions' = {b \in actions : b.id # a}

C7_Cascade == [](C7_Integrity) /\ [][C7_Step]_vars

C7_Witness ==
  /\ \E p \in PostIdUniverse : p < nextPostId /\ p \notin Ids(posts)
  /\ Ids(actions) = ActionIdUniverse
  /\ nextVoteId - 1 > Cardinality(votes)

(* C8: every result of getLeaderboard(actionId, limit) has at most limit   *)
(* entries; each entry is an approved post with at least one vote for the  *)
(* action, its voteCount is the number of vote rows for (post, actionId),  *)
(* no post appears twice and the voteCounts are non-increasing.            *)
C8_Leaderboard ==
  \A a \in ActionIdUniverse, limit \in 0..MaxLimit :
    \A r \in getLeaderboard(a, limit) :
      /\ Len(r) <= limit
      /\ \A i \in 1..Len(r) :
           /\ r[i].post \in posts
           /\ r[i].post.status = "approved"
           /\ r[i].voteCount = Cardinality(VoteRows(r[i].post.id, a))
           /\ r[i].voteCount >= 1
           /\ \A j \in 1..Len(r) :
                i < j => (r[i].voteCount >= r[j].voteCount /\ r[i].post # r[j].post)

C8_Witness ==
  \E a, b \in ActionIdUniverse, p, q \in posts :
    /\ a # b
    /\ p.status = "approved" /\ q.status # "approved"
    /\ VoteRows(p.id, a) # {} /\ VoteRows(p.id, b) # {} /\ VoteRows(q.id, a) # {}
    /\ \E r \in getLeaderboard(a, 1) : Len(r) = 1 /\ r[1].post = p /\ r[1].voteCount = 1

IsPrefix(s, t) == Len(s) <= Len(t) /\ SubSeq(t, 1, Len(s)) = s

(* C9: on one store state, every result of getLeaderboard(a, N) is a       *)
(* prefix of every result of getLeaderboard(a, N + 1).                     *)
C9_PrefixOfNext ==
  \A a \in ActionIdUniverse, n \in 0..MaxLimit :
    \A r \in getLeaderboard(a, n), t \in getLeaderboard(a, n + 1) : IsPrefix(r, t)

(* Votes counted for post p by the trending query with a window of hours. *)
TrendCount(hours, p) ==
  LET rows == {r \in TrendingRows(hours) : r.post = p}
  IN IF rows = {} THEN 0 ELSE (CHOOSE r \in rows : TRUE).voteCount

(* C10: on one store state and at one instant, for windows W1 <= W2 and    *)
(* every approved post p, the trending query counts for p, with window W,  *)
(* exactly the votes of p (of any action) created at or after now - W      *)
(* hours, so the count for W2 is at least the count for W1.                *)
C10_TrendingMonotonic ==
  \A w1, w2 \in 0..MaxHours :
    w1 <= w2 =>
      \A p \in posts :
        p.status = "approved" =>
          /\ TrendCount(w1, p) <= TrendCount(w2, p)
          /\ TrendCount(w1, p) =
               Cardinality({v \in votes : v.postId = p.id /\ v.createdAt >= now - w1 * MinutesPerHour})
          /\ Cardinality({r \in TrendingRows(w1) : r.post = p}) <= 1

C10_Witness ==
  \E p \in posts :
    /\ p.status = "approved"
    /\ TrendCount(1, p) >= 1
    /\ TrendCount(2, p) > TrendCount(1, p)
    /\ \E v, w \in votes : v.postId = p.id /\ w.postId = p.id /\ v.actionId # w.actionId

(* C11: the reads leave out the votes of an action that is not approved:   *)
(* getPostVotes has no row for such an action, getLeaderboard of such an   *)
(* action is empty, and the trending count of a post is the number of its  *)
(* votes in the window whose action is approved.                           *)
C11_ApprovedActionsOnly ==
  /\ \A p \in PostIdUniverse : \A r \in getPostVotes(p) : r.action.approved
  /\ \A a \in ActionIdUniverse :
       ~ApprovedAction(a) => getLeaderboard(a, MaxLimit) = {<<>>}
  /\ \A r \in TrendingRows(MaxHours) :
       r.voteCount =
         Cardinality({v \in votes : /\ v.postId = r.post.id
                                    /\ v.createdAt >= now - MaxHours * MinutesPerHour
                                    /\ ApprovedAction(v.actionId)})

(* Each of the five default names exists exactly once and is approved.     *)
DefaultsSeeded ==
  \A i \in 1..Len(DefaultActions) :
    /\ Cardinality({a \in actions : a.name = DefaultActions[i]}) = 1
    /\ \A a \in actions : a.name = DefaultActions[i] => a.approved

(* C12: after a run of initializeDefaultActions, from whatever store state *)
(* it started, each of the five default names exists exactly once and is   *)
(* approved; a run on a store that is seeded already inserts nothing.      *)
C12_Step ==
  initializeDefaultActions(MaxActions) =>
    /\ DefaultsSeeded'
    /\ DefaultsSeeded => actions' = actions

C12_SeedingEnsuresDefaults == [][C12_Step]_vars

(* C13: no two action rows have the same name; a suggestion whose name is  *)
(* already there adds no row (it is answered 500), while one whose name is *)
(* free adds exactly one row with that name.                               *)
C13_UniqueNames ==
  \A a, b \in actions : a.name = b.name => a = b

C13_Step ==
  \A s \in Slots :
    (reqs[s].pc = "insertAction" /\ reqs'[s] # reqs[s]) =>
      IF \E a \in actions : a.name = reqs[s].name
        THEN /\ actions' = actions
             /\ nextActionId' = nextActionId
             /\ resp'.kind = "suggest" /\ resp'.status = 500
        ELSE \E a \in actions' \ actions :
               actions' = actions \cup {a} /\ a.name = reqs[s].name

C13_ActionNamesUnique == [](C13_UniqueNames) /\ [][C13_Step]_vars

C13_Witness ==
  /\ resp.kind = "suggest" /\ resp.status = 500
  /\ \E a \in actions : ~a.isDefault
  /\ \E i \in 1..Len(DefaultActions) :
       \E a \in actions : a.name = DefaultActions[i] /\ a.id > Len(DefaultActions)

(* The arguments of the listing queries that the claims range over.       *)
CategoryInputs == {"", "film", "political"}

SortInputs == {"", "recent", "votes", "trending"}

ActionNameInputs == {"", "slap", "hug", "applaud", "nosuch"}

OffsetInputs == 0..1

Range(seq) == {seq[i] : i \in DOMAIN seq}

(* C14: a submission creates its post with status pending; a post's status *)
(* goes from pending to approved only in a step of the moderator (status   *)
(* route or bulk approval); every approved listing, whatever category,     *)
(* page, sort and action, holds approved posts only, and the approved      *)
(* listing taken as a whole holds every approved post.                     *)
C14_Listing ==
  /\ \A category \in CategoryInputs, sort \in SortInputs, action \in ActionNameInputs,
        limit \in 0..MaxLimit, offset \in OffsetInputs :
       \A r \in getPosts("approved", category, limit, offset, action, sort) :
         \A i \in DOMAIN r : r[i] \in posts /\ r[i].status = "approved"
  /\ \A r \in getPosts("approved", "", Cardinality(posts), 0, "", "") :
       \A p \in posts : p.status = "approved" <=> p \in Range(r)

C14_Step ==
  /\ \A s \in Slots :
       (reqs[s].pc = "createPost" /\ reqs'[s] # reqs[s]) =>
         \E p \in posts' \ posts : posts' = posts \cup {p} /\ p.status = "pending"
  /\ \A p \in posts' : p \notin posts =>
       \/ p.id \notin Ids(posts) /\ p.status = "pending"
       \/ p.id \in Ids(posts) /\ resp'.kind \in {"adminPatchPost", "adminBulkApprove"}
                              /\ resp'.status = 200

C14_PendingUntilApproved == [](C14_Listing) /\ [][C14_Step]_vars

C14_Witness ==
  \E p, q \in posts :
    /\ p.status = "approved" /\ q.status = "pending"
    /\ resp.kind = "adminPatchPost" /\ resp.status = 200 /\ resp.postId = p.id
    /\ getPosts("approved", "", DefaultLimit, 0, "", "") = {<<p>>}

(* C15: the row that a suggestion inserts has approved = FALSE whatever    *)
(* the request body says, is in getActions(FALSE) and not in               *)
(* getActions(TRUE); a row that is not approved becomes approved only by   *)
(* updateActionApproval(id, TRUE) on it.                                   *)
C15_Step ==
  /\ \A s \in Slots :
       (reqs[s].pc = "insertAction" /\ reqs'[s] # reqs[s]) =>
         \A a \in actions' \ actions :
           /\ ~a.approved
           /\ a.name = reqs[s].name
           /\ a \in getActions(FALSE)'
           /\ a \notin getActions(TRUE)'
  /\ \A a \in actions, b \in actions' :
       (a.id = b.id /\ ~a.approved /\ b.approved) =>
         actions' = {IF x.id = a.id THEN [x EXCEPT !.approved = TRUE] ELSE x : x \in actions}

C15_Listed ==
  \A a \in actions :
    /\ a \in getActions(TRUE) <=> a.approved
    /\ a \in getActions(FALSE) <=> ~a.approved

C15_SuggestionUnapproved == [](C15_Listed) /\ [][C15_Step]_vars

C15_Witness ==
  \E s \in Slots :
    /\ reqs[s].kind = "suggest" /\ reqs[s].pc = "incrementRateLimit"
    /\ reqs[s].bodyApproved
    /\ \E a \in getActions(FALSE) : a.id = reqs[s].actionId /\ a.name = "applaud"
    /\ \A a \in getActions(TRUE) : a.isDefault

(* The values a query parameter may take: absent, or one of the values.   *)
ParamOver(values) == {<<>>} \cup {<<v>> : v \in values}

(* C16: in every state, every response of a route that is served without  *)
(* admin authentication (posts list, search, leaderboard, trending, debug  *)
(* listing) holds approved posts only.                                     *)
C16_PublicOnlyApproved ==
  /\ \A category \in ParamOver(CategoryInputs), sort \in ParamOver(SortInputs),
        action \in ParamOver(ActionNameInputs),
        limit \in ParamOver(0..MaxLimit), offset \in ParamOver(OffsetInputs) :
       \A r \in ApiPosts(category, limit, offset, sort, action) :
         \A i \in DOMAIN r : r[i].post.status = "approved"
  /\ \A matching \in SUBSET Ids(posts), category \in ParamOver(CategoryInputs) :
       \A r \in ApiSearch(matching, category) :
         \A i \in DOMAIN r : r[i].post.status = "approved"
  /\ \A actionName \in ParamOver(ActionNameInputs), limit \in ParamOver(0..MaxLimit) :
       \A r \in ApiLeaderboard(actionName, limit) :
         \A i \in DOMAIN r.body : r.body[i].post.status = "approved"
  /\ \A hours \in ParamOver(0..MaxHours), limit \in ParamOver(0..MaxLimit) :
       \A r \in ApiTrending(hours, limit) :
         \A i \in DOMAIN r : r[i].post.status = "approved"
  /\ \A r \in ApiDebugPendingPosts :
       \A i \in DOMAIN r : r[i].status = "approved"

(* C17: getPosts with an action name that is not the name of an approved  *)
(* action (no such action, or one that is not approved) returns the empty  *)
(* list, for every status, category, limit, offset and sort.               *)
C17_UnresolvedActionIsEmpty ==
  \A action \in {"slap", "hug", "nosuch"} :
    (~\E a \in actions : a.name = action /\ a.approved) =>
      \A status \in StatusInputs \cup {""}, category \in {"", "film"},
         limit \in {1, DefaultLimit}, offset \in OffsetInputs, sort \in SortInputs :
        getPosts(status, category, limit, offset, action, sort) = {<<>>}

C17_Witness ==
  \E a, b \in actions, p \in posts :
    /\ a.name = "slap" /\ ~a.approved /\ VoteRows(p.id, a.id) # {}
    /\ b.name = "hug" /\ b.approved
    /\ p.status = "approved"
    /\ getPosts("approved", "", DefaultLimit, 0, "slap", "votes") = {<<>>}
    /\ getPosts("approved", "", DefaultLimit, 0, "hug", "votes") = {<<p>>}

(* C18: GET /api/leaderboard with a name (the default love when the        *)
(* request carries none) that is not the name of an approved action is     *)
(* answered 404 with no ranking; with the name of an approved action it is *)
(* answered 200 with a result of getLeaderboard for the id of that action. *)
C18_LeaderboardByName ==
  \A actionName \in ParamOver(ActionNameInputs), limit \in ParamOver(1..MaxLimit) :
    LET name == IF actionName = <<>> THEN "love" ELSE actionName[1]
        n == IF limit = <<>> THEN 10 ELSE limit[1]
        approvedOfName == {a \in actions : a.name = name /\ a.approved}
        responses == ApiLeaderboard(actionName, limit)
    IN /\ responses # {}
       /\ IF approvedOfName = {}
            THEN responses = {[status |-> 404, body |-> <<>>]}
            ELSE \E a \in approvedOfName :
                   /\ approvedOfName = {a}
                   /\ responses = {[status |-> 200, body |-> r] : r \in getLeaderboard(a.id, n)}

C18_Witness ==
  \E a \in actions, p \in posts :
    /\ a.name = "slap" /\ a.approved /\ p.status = "approved"
    /\ Cardinality(VoteRows(p.id, a.id)) = 2
    /\ ApiLeaderboard(<<"slap">>, <<>>) =
         {[status |-> 200, body |-> <<[post |-> p, voteCount |-> 2]>>]}
    /\ ApiLeaderboard(<<>>, <<>>) = {[status |-> 404, body |-> <<>>]}
    /\ \E b \in actions : b.name = "love" /\ ~b.approved

(* C19: the status route answers 400 to a status other than approved and   *)
(* rejected and then leaves the posts as they are; no step takes a post    *)
(* that is not pending back to pending; and while no request is in flight, *)
(* a rejected post can be moved to approved and an approved one to         *)
(* rejected by one more call of the status route.                          *)
C19_Step ==
  /\ \A id \in 1..BoardPosts, status \in StatusInputs :
       AdminPatchPost(id, status) =>
         IF status \in {"approved", "rejected"}
           THEN /\ resp'.status = 200
                /\ \A q \in posts' : q.id = id => q.status = status
           ELSE /\ resp'.status = 400
                /\ posts' = posts
  /\ (resp'.kind \in {"adminPatchPost", "adminBulkApprove"} /\ resp'.status = 400)
       => posts' = posts
  /\ \A p \in posts, q \in posts' :
       (p.id = q.id /\ p.status # "pending") => q.status # "pending"

C19_Reversible ==
  (Sent /\ Quiet) =>
    \A p \in posts :
      /\ p.status = "rejected" =>
           ENABLED (/\ AdminPatchPost(p.id, "approved")
                    /\ \E q \in posts' : q.id = p.id /\ q.status = "approved")
      /\ p.status = "approved" =>
           ENABLED (/\ AdminPatchPost(p.id, "rejected")
                    /\ \E q \in posts' : q.id = p.id /\ q.status = "rejected")

C19_ModerationTransitions == [](C19_Reversible) /\ [][C19_Step]_vars

C19_Witness ==
  \E p, q \in posts :
    /\ p.status = "rejected" /\ q.status = "approved"
    /\ resp.kind = "adminPatchPost" /\ resp.status = 400 /\ resp.postId = p.id

(* C20: the vote ledger is append-only.  In every step, a vote row that    *)
(* stays keeps its post, action, ip address and creation time; a vote row  *)
(* goes away only in a step that removes its post or its action; and a row *)
(* that appears is a new one, created now.                                 *)
C20_Step ==
  /\ \A v \in votes :
       \/ v \in votes'
       \/ v.postId \in Ids(posts) \ Ids(posts')
       \/ v.actionId \in Ids(actions) \ Ids(actions')
  /\ \A v \in votes, w \in votes' : v.id = w.id => v = w
  /\ \A w \in votes' \ votes : w.id = nextVoteId /\ w.createdAt = now

C20_AppendOnlyLedger == [][C20_Step]_vars

C20_Witness ==
  /\ nextVoteId = 3
  /\ \E v \in votes : votes = {v} /\ v.id = 1
  /\ Ids(actions) # ActionIdUniverse
  /\ \A p \in PostIdUniverse : p < nextPostId => p \in Ids(posts)

(* C25: the identity getClientIP resolves is never the empty string and   *)
(* never starts with '::ffff:'.                                            *)
C25_NonEmptyNormalized ==
  \A i \in 1..Len(clientIP) : clientIP[i] # <<>> /\ ~startsWith(clientIP[i], "::ffff:")

(* The count getPostVotes reports for a (post, action) pair, 0 when the    *)
(* pair has no row in the result.                                          *)
CountOf(p, a) ==
  LET rows == {r \in getPostVotes(p) : r.action.id = a}
  IN IF rows = {} THEN 0 ELSE (CHOOSE r \in rows : TRUE).count

Voted201(p, a) ==
  /\ resp = NoResp /\ resp' # NoResp
  /\ resp'.kind = "vote" /\ resp'.status = 201
  /\ resp'.postId = p /\ resp'.actionId = a

(* C21: no vote is lost.  In every step that removes neither the post nor  *)
(* the action, the count getPostVotes reports for a (post, action) pair    *)
(* grows by exactly one when a vote on that pair is answered 201 and stays *)
(* the same otherwise; so k votes answered 201, however their handlers     *)
(* interleave, raise the count by exactly k.                               *)
C21_Step ==
  \A p \in PostIdUniverse :
    p \in Ids(posts') =>
      \A a \in ActionIdUniverse :
        a \in Ids(actions') =>
          CountOf(p, a)' = CountOf(p, a) + (IF Voted201(p, a) THEN 1 ELSE 0)

C21_NoLostVote == [][C21_Step]_vars

(* The second of two concurrent votes on one (post, action) pair has been  *)
(* answered 201 while both handlers were past their checks together.       *)
C21_Witness ==
  /\ resp # NoResp /\ resp.kind = "vote" /\ resp.status = 201
  /\ CountOf(resp.postId, resp.actionId) = 1
  /\ \E s \in Slots \ {resp.slot} :
       /\ reqs[s].pc = "createVote"
       /\ reqs[s].postId = resp.postId /\ reqs[s].actionId = resp.actionId

(* C26: at the instant a vote row is inserted its post has status          *)
(* 'approved' and its action is approved, also when votes interleave with  *)
(* moderation.                                                             *)
C26_Step ==
  \A v \in votes' \ votes : ApprovedPost(v.postId) /\ ApprovedAction(v.actionId)

C26_InsertOnlyWhileApproved == [][C26_Step]_vars

(* C27: getPosts returns only posts whose status is the requested status  *)
(* and whose category is the requested category, for every sort mode and   *)
(* every action filter.                                                    *)
C27_OnlyRequested ==
  \A status \in StatusInputs \ {""}, category \in CategoryInputs, sort \in SortInputs,
     action \in ActionNameInputs :
    \A listing \in getPosts(status, category, DefaultLimit, 0, action, sort) :
      \A post \in Range(listing) :
        /\ post.status = status
        /\ category = "" \/ post.category = category

(* The rate-limit rows of (ip address, action type) that lie in the       *)
(* window ending now.                                                      *)
RecordedInWindow(ipAddress, actionType, windowMinutes) ==
  Cardinality({r \in rateLimits : /\ r.ipAddress = ipAddress
                                  /\ r.actionType = actionType
                                  /\ r.windowStart >= now - windowMinutes})

(* C22: with K handlers running concurrently for one identity (K is the    *)
(* number of slots) the events recorded in a window can exceed maxEvents,  *)
(* but never exceed maxEvents - 1 + K.                                     *)
C22_BoundedOvershoot ==
  \A ip \in IPs :
    RecordedInWindow(ip, "post", PostWindow) <= PostLimit - 1 + Cardinality(Slots)

(* More than maxEvents events of one identity lie in one window.           *)
C22_Witness ==
  \E ip \in IPs : RecordedInWindow(ip, "post", PostWindow) > PostLimit

(* C23: the rate limiter fails closed.  A submission or a suggestion      *)
(* whose checkRateLimit query fails is answered with an error status, its  *)
(* handler ends there, and no post, no action and no rate-limit row is     *)
(* created.                                                                *)
C23_Step ==
  \A s \in Slots :
    (reqs[s].pc = "idle" /\ (reqs'[s] # reqs[s] \/ resp' # resp)) =>
      \A ip \in IPs :
        /\ (\E valid, hasFile, uploadOk \in BOOLEAN :
              PostBegin(s, MaxRatePosts, ip, "film", valid, hasFile, uploadOk, FALSE))
             => /\ resp'.kind = "post" /\ resp'.status >= 400
                /\ reqs'[s] = Blank
                /\ posts' = posts /\ actions' = actions /\ rateLimits' = rateLimits
        /\ (\E name \in SuggestedNames, bodyApproved, valid \in BOOLEAN :
              ActionBegin(s, MaxActions, ip, name, bodyApproved, valid, FALSE))
             => /\ resp'.kind = "suggest" /\ resp'.status >= 400
                /\ reqs'[s] = Blank
                /\ posts' = posts /\ actions' = actions /\ rateLimits' = rateLimits

C23_FailsClosed == [][C23_Step]_vars

(* A submission whose rate-limit query failed has been answered 500, at a  *)
(* time when a post and a rate-limit row of earlier submissions exist.     *)
C23_Witness ==
  /\ resp.kind = "post" /\ resp.status = 500 /\ resp.why = "checkRateLimit"
  /\ posts # {} /\ rateLimits # {}

PostRows(ip) == {r \in rateLimits : r.ipAddress = ip /\ r.actionType = "post"}

(* C28: only a successful creation records a rate-limit event.  The        *)
(* rate-limit rows change only in the step that answers 201, by one row of *)
(* the submitter; a submission answered 429 or 400, or 500 before its      *)
(* insert, leaves them unchanged; so an identity never has more rate-limit *)
(* rows of type 'post' than posts it created.                              *)
C28_Counts == \A ip \in IPs : Cardinality(PostRows(ip)) <= createdBy[ip]

C28_Step ==
  /\ rateLimits' # rateLimits
       => /\ resp = NoResp /\ resp'.status = 201
          /\ \E r \in rateLimits' \ rateLimits :
               /\ rateLimits' = rateLimits \cup {r}
               /\ r.ipAddress = resp'.ip
               /\ r.actionType = (IF resp'.kind = "post" THEN "post" ELSE "action_suggestion")
  /\ (/\ resp = NoResp /\ resp' # NoResp
      /\ resp'.status \in {429, 400, 500}
      /\ resp'.why # "incrementRateLimit")
       => rateLimits' = rateLimits

C28_OnlySuccessRecorded == [](C28_Counts) /\ [][C28_Step]_vars

(* A submission has been answered 429 while its identity has five         *)
(* rate-limit rows and has created five posts.                             *)
C28_Witness ==
  /\ resp.kind = "post" /\ resp.status = 429
  /\ Cardinality(PostRows(resp.ip)) = PostLimit
  /\ createdBy[resp.ip] = PostLimit

(* C29: a submission or a suggestion answered with an error status has     *)
(* created no row in posts or actions, also when incrementRateLimit fails  *)
(* after the insert has succeeded; one answered 201 has created its row    *)
(* and recorded its rate-limit event.                                      *)
C29_ErrorCreatesNothing ==
  (resp.kind \in {"post", "suggest"} /\ resp.status >= 400)
    => /\ resp.postId \notin Ids(posts)
       /\ resp.actionId \notin Ids(actions)

(* C24: the body of GET /api/posts with sort=votes annotates every post   *)
(* with totalVotes, the sum of its per-action counts, and totalVotes is    *)
(* non-increasing down the list, also when votes are inserted or deleted   *)
(* between the ordering query and the count queries of the handler.        *)
C24_SortedByTotalVotes ==
  (resp.kind = "list" /\ resp.status = 200) =>
    \A i, j \in DOMAIN resp.body :
      /\ resp.body[i].totalVotes =
           SumOfCounts({[name |-> n, count |-> resp.body[i].votes[n]] :
                          n \in DOMAIN resp.body[i].votes})
      /\ i < j => resp.body[i].totalVotes >= resp.body[j].totalVotes

TypeOK ==
  /\ now \in 0..(MaxTicks * TickMinutes)
  /\ \A v \in votes : v.createdAt <= now
  /\ \A s \in Slots : reqs[s].pc \in
       {"idle", "getPostById", "getActionById", "createVote", "createPost",
        "insertAction", "incrementRateLimit", "getPostVotes"}
====
